---- MODULE Spec2Model ----
(***************************************************************************)
(* Torneo API (src/main.py): a FastAPI application over one SQLite file.   *)
(* The state is the content of the seven tables plus SQLite's              *)
(* sqlite_sequence (AUTOINCREMENT) and the request being served with its   *)
(* response (get_db closes its connection when the request is over).       *)
(* Every handler is one action: the statement it executes, the constraint  *)
(* checks the schema attaches to it, the commit, the re-fetch and the      *)
(* HTTP answer.                                                            *)
(***************************************************************************)
EXTENDS Integers, FiniteSets, Sequences, TLC

\* ---------------------------------------------------------------- bounds
\* Largest id a table's AUTOINCREMENT counter may hand out in the model.
MaxId == 2
\* Largest number of rows inserted over all tables in one behaviour.
MaxRows == 6

\* ------------------------------------------------- request value domains
\* SQL NULL / JSON null of a text column and of an integer column.
NULL == "NULL"
NullInt == -1

Nombres == {"n1"}
Nicknames == {"k1"}
Emails == {"a@x.io", "b@x.io"}
PwdHashes == {"h60"}
NombresEquipo == {"rojo", "azul"}
NombresTorneo == {"copa"}
Descripciones == {NULL}
Fechas == {"2024-07-01"}
MaxEquiposValues == {1}
MontoValues == {0}
ResultadoValues == {NullInt}
\* Path ids and body ids a request may carry.  An id not yet handed out, or
\* whose row was deleted, is the id of no stored row.
IdValues == 1..MaxId

\* Value DEFAULT CURRENT_TIMESTAMP stores.
CURRENT_TIMESTAMP == "now"

Roles == {"jugador", "capitan", "suplente"}
EstadosTorneo == {"programado", "en_curso", "finalizado"}
EstadosPago == {"pendiente", "confirmado"}

\* ---------------------------------------------- request bodies (pydantic)
\* A required field the request body does not carry.
MISSING == "MISSING"

\* len() of the password hashes of the model: "h60" stands for a hash of
\* 60 characters, "h59" for a string one character short.
len(s) == IF s = "h59" THEN 59 ELSE 60

\* The bodies a client sends: every body over the value domains, and
\* bodies that break one declaration of the model each.
UsuarioBaseBodies ==
    [nombre : Nombres, nickname : Nicknames, email : Emails]
    \cup {[nombre |-> MISSING, nickname |-> "k1", email |-> "a@x.io"]}

UsuarioCreateBodies ==
    [nombre : Nombres, nickname : Nicknames, email : Emails, pwd_hash : PwdHashes]
    \cup {[nombre |-> "n1", nickname |-> "k1", email |-> "b@x.io", pwd_hash |-> "h59"],
          [nombre |-> MISSING, nickname |-> "k1", email |-> "a@x.io", pwd_hash |-> "h60"]}

EquipoBaseBodies ==
    [nombre : NombresEquipo, id_capitan : IdValues]
    \cup {[nombre |-> MISSING, id_capitan |-> 1]}

MiembroBaseBodies ==
    [id_equipo : IdValues, id_usuario : IdValues, rol : Roles]
    \cup {[id_equipo |-> 1, id_usuario |-> 1, rol |-> "arbitro"]}

TorneoBaseBodies ==
    [nombre : NombresTorneo, descripcion : Descripciones, fecha_inicio : Fechas,
     fecha_fin : Fechas, max_equipos : MaxEquiposValues,
     estado : EstadosTorneo \cup {NULL}]
    \cup {[nombre |-> "copa", descripcion |-> NULL, fecha_inicio |-> "2024-07-01",
           fecha_fin |-> "2024-07-01", max_equipos |-> 0, estado |-> "programado"],
          [nombre |-> "copa", descripcion |-> NULL, fecha_inicio |-> "2024-07-01",
           fecha_fin |-> "2024-07-01", max_equipos |-> 1, estado |-> "cancelado"]}

InscripcionBaseBodies ==
    [id_equipo : IdValues, id_torneo : IdValues]
    \cup {[id_equipo |-> 1, id_torneo |-> NullInt]}

PagoBaseBodies ==
    [id_equipo : IdValues, id_torneo : IdValues, monto_cent : MontoValues,
     estado : EstadosPago \cup {NULL}]
    \cup {[id_equipo |-> 1, id_torneo |-> 1, monto_cent |-> -5, estado |-> "pendiente"],
          [id_equipo |-> 1, id_torneo |-> 1, monto_cent |-> 0, estado |-> "anulado"]}

PartidoBaseBodies ==
    [id_torneo : IdValues, equipo_local : IdValues, equipo_visitante : IdValues,
     fecha : Fechas, resultado_local : ResultadoValues,
     resultado_visitante : ResultadoValues]
    \cup {[id_torneo |-> 1, equipo_local |-> 1, equipo_visitante |-> 2,
           fecha |-> MISSING, resultado_local |-> NullInt,
           resultado_visitante |-> NullInt]}

\* Field(...) of a str field and of an int field: the field is required
\* and null is not a value of its type.
required(v) == v # MISSING /\ v # NULL
required_int(v) == v # NullInt

\* UsuarioBase: nombre, nickname and email are required.
UsuarioBase_valid(u) == required(u.nombre) /\ required(u.nickname) /\ required(u.email)

\* UsuarioCreate(UsuarioBase): pwd_hash: str = Field(..., min_length=60).
UsuarioCreate_valid(u) ==
    UsuarioBase_valid(u) /\ required(u.pwd_hash) /\ len(u.pwd_hash) >= 60

\* EquipoBase: nombre and id_capitan are required.
EquipoBase_valid(t) == required(t.nombre) /\ required_int(t.id_capitan)

\* The pattern of rol accepts every body.
MiembroBase_rol_any(m) == TRUE

\* MiembroBase: rol = Field(..., pattern="^(jugador|capitan|suplente)$").
MiembroBase_rol(m) == m.rol \in {"jugador", "capitan", "suplente"}

\* MiembroBase: id_equipo, id_usuario and rol are required.
MiembroBase_valid(m) ==
    required_int(m.id_equipo) /\ required_int(m.id_usuario) /\ MiembroBase_rol(m)

\* TorneoBase: nombre, fecha_inicio and fecha_fin are required,
\* max_equipos = Field(..., gt=0), descripcion is Optional and estado is
\* Optional[str] with pattern="^(programado|en_curso|finalizado)$": null
\* passes, a string must match.
TorneoBase_valid(t) ==
    /\ required(t.nombre) /\ required(t.fecha_inicio) /\ required(t.fecha_fin)
    /\ t.max_equipos > 0
    /\ t.estado = NULL \/ t.estado \in {"programado", "en_curso", "finalizado"}

\* InscripcionBase: id_equipo and id_torneo are required.
InscripcionBase_valid(i) == required_int(i.id_equipo) /\ required_int(i.id_torneo)

\* PagoBase: id_equipo and id_torneo are required, monto_cent =
\* Field(..., ge=0), estado is Optional[str] with
\* pattern="^(pendiente|confirmado)$".
PagoBase_valid(p) ==
    /\ required_int(p.id_equipo) /\ required_int(p.id_torneo)
    /\ p.monto_cent >= 0
    /\ p.estado = NULL \/ p.estado \in {"pendiente", "confirmado"}

\* PartidoBase: id_torneo, equipo_local, equipo_visitante and fecha are
\* required, the two results are Optional.
PartidoBase_valid(m) ==
    /\ required_int(m.id_torneo) /\ required_int(m.equipo_local)
    /\ required_int(m.equipo_visitante) /\ required(m.fecha)

VARIABLES usuarios, equipos, miembros_equipo, torneos, inscripciones, pagos,
          partidos, sqlite_sequence, last, db_file, requests

tables == <<usuarios, equipos, miembros_equipo, torneos, inscripciones, pagos,
            partidos>>
db == <<usuarios, equipos, miembros_equipo, torneos, inscripciones, pagos,
        partidos, sqlite_sequence>>
\* db_file: the file DB_PATH exists.  requests: the requests being served
\* concurrently, each on its own connection (none when requests are served
\* one after the other, where `last` is the request being served).
env == <<db_file, requests>>
vars == <<usuarios, equipos, miembros_equipo, torneos, inscripciones, pagos,
          partidos, sqlite_sequence, last, db_file, requests>>

\* ------------------------------------------------------------ SQL helpers
Ids(tbl) == {r.id : r \in tbl}

\* A statement whose WHERE id = ? falls back to the row of id 1 when no row
\* has the id.
select_by_id_or_first(tbl, id) ==
    IF \E r \in tbl : r.id = id THEN {r \in tbl : r.id = id} ELSE {r \in tbl : r.id = 1}

\* SELECT * FROM tbl WHERE id = ?
select_by_id(tbl, id) == {r \in tbl : r.id = id}

\* SELECT * FROM tbl LIMIT 1
select_all_limit_1(tbl) == {r \in tbl : \A q \in tbl : r.id <= q.id}

\* SELECT * FROM tbl
select_all(tbl) == tbl

\* Rows inserted so far over all tables.
RowsInserted ==
    sqlite_sequence.usuarios + sqlite_sequence.equipos
    + sqlite_sequence.miembros_equipo + sqlite_sequence.torneos
    + sqlite_sequence.inscripciones + sqlite_sequence.pagos
    + sqlite_sequence.partidos

\* INTEGER PRIMARY KEY without AUTOINCREMENT: one more than the largest id
\* stored now.
next_id_max_rowid(t) ==
    LET tbl == CASE t = "usuarios" -> usuarios
                 [] t = "equipos" -> equipos
                 [] t = "miembros_equipo" -> miembros_equipo
                 [] t = "torneos" -> torneos
                 [] t = "inscripciones" -> inscripciones
                 [] t = "pagos" -> pagos
                 [] OTHER -> partidos
    IN  IF tbl = {} THEN 1
        ELSE (CHOOSE m \in Ids(tbl) : \A i \in Ids(tbl) : i <= m) + 1

\* INTEGER PRIMARY KEY AUTOINCREMENT: one more than the largest id ever used.
next_id(t) == sqlite_sequence[t] + 1

\* The model stops inserting at its bounds.
CanInsert(t) == next_id(t) <= MaxId /\ RowsInserted < MaxRows

\* ------------------------------------------ schema: constraints per table
\* The schema without UNIQUE on usuarios.email.
usuarios_email_any(row, others) == TRUE

\* usuarios: email TEXT NOT NULL UNIQUE.  `others` are the rows the new or
\* updated row is compared with.
usuarios_email_unique(row, others) == \A r \in others : r.email # row.email

usuarios_not_null(row) ==
    /\ row.nombre # NULL /\ row.nickname # NULL
    /\ row.email # NULL /\ row.pwd_hash # NULL

usuarios_constraints(row, others) ==
    usuarios_not_null(row) /\ usuarios_email_unique(row, others)

\* The schema without UNIQUE on equipos.nombre.
equipos_nombre_any(row, others) == TRUE

\* equipos: nombre TEXT NOT NULL UNIQUE.
equipos_nombre_unique(row, others) == \A r \in others : r.nombre # row.nombre

\* The schema without the foreign key on equipos.id_capitan (or a
\* connection that never ran PRAGMA foreign_keys = ON).
equipos_fk_capitan_off(row, us) == TRUE

\* equipos: FOREIGN KEY(id_capitan) REFERENCES usuarios(id).
equipos_fk_capitan(row, us) == row.id_capitan \in Ids(us)

equipos_constraints(row, others, us) ==
    /\ row.nombre # NULL
    /\ equipos_nombre_unique(row, others)
    /\ equipos_fk_capitan(row, us)

\* miembros_equipo: CHECK(rol IN ('jugador','capitan','suplente')), NOT NULL.
miembros_check_rol(row) == row.rol # NULL /\ row.rol \in Roles

\* The schema without UNIQUE(id_equipo, id_usuario) on miembros_equipo.
miembros_pair_any(row, others) == TRUE

\* miembros_equipo: UNIQUE(id_equipo, id_usuario).
miembros_unique_pair(row, others) ==
    \A r \in others :
        ~(r.id_equipo = row.id_equipo /\ r.id_usuario = row.id_usuario)

\* The schema without idx_unq_capitan_equipo (as the comment
\* "sin unique partial" of my_db-no_es_necesario.py suggests).
idx_unq_capitan_equipo_missing(row, others) == TRUE

\* CREATE UNIQUE INDEX idx_unq_capitan_equipo ON miembros_equipo(id_equipo)
\* WHERE rol = 'capitan'.
idx_unq_capitan_equipo(row, others) ==
    row.rol = "capitan" =>
        \A r \in others : ~(r.rol = "capitan" /\ r.id_equipo = row.id_equipo)

\* miembros_equipo: the two foreign keys.
miembros_fk(row, eqs, us) ==
    row.id_equipo \in Ids(eqs) /\ row.id_usuario \in Ids(us)

miembros_constraints(row, others, eqs, us) ==
    /\ miembros_check_rol(row)
    /\ miembros_unique_pair(row, others)
    /\ idx_unq_capitan_equipo(row, others)
    /\ miembros_fk(row, eqs, us)

\* torneos: NOT NULL columns (descripcion may be NULL), CHECK(max_equipos > 0),
\* CHECK(estado IN (...)).
torneos_constraints(row) ==
    /\ row.nombre # NULL /\ row.fecha_inicio # NULL /\ row.fecha_fin # NULL
    /\ row.max_equipos > 0
    /\ row.estado # NULL
    /\ row.estado \in EstadosTorneo

\* The schema without UNIQUE(id_equipo, id_torneo).
inscripciones_pair_any(row, others) == TRUE

\* inscripciones: UNIQUE(id_equipo, id_torneo).
inscripciones_unique_pair(row, others) ==
    \A r \in others :
        ~(r.id_equipo = row.id_equipo /\ r.id_torneo = row.id_torneo)

\* inscripciones: the two foreign keys.
inscripciones_fk(row, eqs, ts) ==
    row.id_equipo \in Ids(eqs) /\ row.id_torneo \in Ids(ts)

inscripciones_constraints(row, others, eqs, ts) ==
    inscripciones_unique_pair(row, others) /\ inscripciones_fk(row, eqs, ts)

\* pagos: the two foreign keys.
pagos_fk(row, eqs, ts) ==
    row.id_equipo \in Ids(eqs) /\ row.id_torneo \in Ids(ts)

\* The schema without NOT NULL and CHECK on pagos.monto_cent and estado.
pagos_checks_missing(row) == TRUE

\* pagos: CHECK(monto_cent >= 0), estado NOT NULL CHECK(estado IN (...)).
pagos_checks(row) ==
    /\ row.monto_cent >= 0
    /\ row.estado # NULL
    /\ row.estado \in EstadosPago

pagos_constraints(row, eqs, ts) == pagos_checks(row) /\ pagos_fk(row, eqs, ts)

\* The schema without CHECK(equipo_local <> equipo_visitante).
partidos_check_distinct_missing(row) == TRUE

\* partidos: CHECK(equipo_local <> equipo_visitante).
partidos_check_distinct(row) == row.equipo_local # row.equipo_visitante

\* partidos: the three foreign keys.
partidos_fk(row, eqs, ts) ==
    /\ row.id_torneo \in Ids(ts)
    /\ row.equipo_local \in Ids(eqs)
    /\ row.equipo_visitante \in Ids(eqs)

partidos_constraints(row, eqs, ts) ==
    /\ row.fecha # NULL
    /\ partidos_check_distinct(row)
    /\ partidos_fk(row, eqs, ts)

\* ------------------------------------------ schema: ON DELETE rules
\* equipos.id_capitan without ON DELETE RESTRICT enforcement.
usuarios_delete_unrestricted(id, eqs) == FALSE

\* equipos.id_capitan ... ON DELETE RESTRICT: a user some team names as its
\* captain cannot be deleted.
usuarios_delete_restricted(id, eqs) == \E e \in eqs : e.id_capitan = id

\* miembros_equipo.id_usuario ... ON DELETE SET NULL.
usuarios_delete_set_null(id, ms) ==
    {IF m.id_usuario = id THEN [m EXCEPT !.id_usuario = NullInt] ELSE m : m \in ms}

\* miembros_equipo.id_usuario without ON DELETE CASCADE.
usuarios_delete_no_cascade(id, ms) == ms

\* miembros_equipo.id_usuario ... ON DELETE CASCADE.
usuarios_delete_cascade_miembros(id, ms) == {m \in ms : m.id_usuario # id}

\* Only partidos.equipo_local declared ON DELETE RESTRICT.
equipos_delete_restricted_local_only(id, ps) == \E p \in ps : p.equipo_local = id

\* partidos.equipo_local / equipo_visitante ... ON DELETE RESTRICT.
equipos_delete_restricted(id, ps) ==
    \E p \in ps : p.equipo_local = id \/ p.equipo_visitante = id

\* id_equipo without ON DELETE CASCADE.
equipos_delete_no_cascade(id, tbl) == tbl

\* miembros_equipo, inscripciones, pagos: id_equipo ... ON DELETE CASCADE.
equipos_delete_cascade(id, tbl) == {r \in tbl : r.id_equipo # id}

\* id_torneo without ON DELETE CASCADE.
torneos_delete_no_cascade(id, tbl) == tbl

\* inscripciones, pagos, partidos: id_torneo ... ON DELETE CASCADE.
torneos_delete_cascade(id, tbl) == {r \in tbl : r.id_torneo # id}

\* ------------------------------------------ response models (pydantic)
\* Usuario(**row): the response model has no pwd_hash field.
Usuario(row) ==
    [id |-> row.id, nombre |-> row.nombre, nickname |-> row.nickname,
     email |-> row.email, fecha_reg |-> row.fecha_reg]

\* Equipo(**row), Miembro(**row), Torneo(**row), Inscripcion(**row),
\* Pago(**row), Partido(**row): every column is a field of the model.
Equipo(row) == [id |-> row.id, nombre |-> row.nombre, id_capitan |-> row.id_capitan]

Miembro(row) ==
    [id |-> row.id, id_equipo |-> row.id_equipo, id_usuario |-> row.id_usuario,
     rol |-> row.rol]

Torneo(row) ==
    [id |-> row.id, nombre |-> row.nombre, descripcion |-> row.descripcion,
     fecha_inicio |-> row.fecha_inicio, fecha_fin |-> row.fecha_fin,
     max_equipos |-> row.max_equipos, estado |-> row.estado]

Inscripcion(row) ==
    [id |-> row.id, id_equipo |-> row.id_equipo, id_torneo |-> row.id_torneo,
     fecha_inscripcion |-> row.fecha_inscripcion]

Pago(row) ==
    [id |-> row.id, id_equipo |-> row.id_equipo, id_torneo |-> row.id_torneo,
     monto_cent |-> row.monto_cent, estado |-> row.estado,
     fecha_pago |-> row.fecha_pago]

Partido(row) ==
    [id |-> row.id, id_torneo |-> row.id_torneo, equipo_local |-> row.equipo_local,
     equipo_visitante |-> row.equipo_visitante, fecha |-> row.fecha,
     resultado_local |-> row.resultado_local,
     resultado_visitante |-> row.resultado_visitante]

\* The answer of a request: the handler, the HTTP status, the request's
\* parameters and the rows of the response body.
Response(op, st, req, body) == [op |-> op, status |-> st, req |-> req, body |-> body]

\* No request is being served: no connection is open.
NoRequest == Response("none", 0, [id |-> 0], {})

\* The parameters of a request without path parameter and body.
NoParams == [id |-> 0]

\* The two requests that may be served at the same time.
Slots == {"A", "B"}

\* A slot that serves no request: no connection is open for it.
IdleRequest ==
    [op |-> "none", req |-> NoParams, pc |-> "idle", status |-> 0, body |-> {},
     lastrowid |-> 0, conn |-> "none", txn |-> FALSE, pending |-> {}]

\* ------------------------------------------------------------------ Init
\* The process starts for the first time: there is no database file yet,
\* hence no row, and no request is served before startup has run.
Init ==
    /\ usuarios = {}
    /\ equipos = {}
    /\ miembros_equipo = {}
    /\ torneos = {}
    /\ inscripciones = {}
    /\ pagos = {}
    /\ partidos = {}
    /\ sqlite_sequence =
           [usuarios |-> 0, equipos |-> 0, miembros_equipo |-> 0, torneos |-> 0,
            inscripciones |-> 0, pagos |-> 0, partidos |-> 0]
    /\ last = NoRequest
    /\ db_file = FALSE
    /\ requests = [s \in Slots |-> IdleRequest]

\* ---------------------------------------------------------------- startup
\* A startup that runs its script whether the file exists or not, on a
\* fresh file.
initialize_database_always ==
    /\ last = NoRequest
    /\ db_file' = TRUE
    /\ usuarios' = {} /\ equipos' = {} /\ miembros_equipo' = {}
    /\ torneos' = {} /\ inscripciones' = {} /\ pagos' = {} /\ partidos' = {}
    /\ sqlite_sequence' = [t \in DOMAIN sqlite_sequence |-> 0]
    /\ last' = Response("initialize_database", 0, NoParams, {})
    /\ UNCHANGED requests

\* @app.on_event("startup"): the process starts, or starts again after it
\* stopped (no request is being served then).  The script that creates the
\* seven tables and the indexes runs only if the file does not exist.
initialize_database ==
    /\ last = NoRequest
    /\ IF ~db_file
       THEN /\ db_file' = TRUE
            /\ usuarios' = {} /\ equipos' = {} /\ miembros_equipo' = {}
            /\ torneos' = {} /\ inscripciones' = {} /\ pagos' = {}
            /\ partidos' = {}
            /\ sqlite_sequence' = [t \in DOMAIN sqlite_sequence |-> 0]
       ELSE UNCHANGED <<db, db_file>>
    /\ last' = Response("initialize_database", 0, NoParams, {})
    /\ UNCHANGED requests

\* Startup is over: the application serves requests.
startup_complete ==
    /\ last.op = "initialize_database"
    /\ last' = NoRequest
    /\ UNCHANGED db
    /\ UNCHANGED env

\* ------------------------------------------------------------ 1) Usuarios
\* POST /users/
create_user ==
    /\ last = NoRequest /\ db_file /\ UNCHANGED env
    /\ \E u \in {b \in UsuarioCreateBodies : UsuarioCreate_valid(b)} :
        LET lastrowid == next_id("usuarios")
            row == [id |-> lastrowid, nombre |-> u.nombre, nickname |-> u.nickname,
                    email |-> u.email, pwd_hash |-> u.pwd_hash,
                    fecha_reg |-> CURRENT_TIMESTAMP]
        IN  IF usuarios_constraints(row, usuarios)
            THEN /\ CanInsert("usuarios")
                 /\ usuarios' = usuarios \cup {row}
                 /\ sqlite_sequence' = [sqlite_sequence EXCEPT !.usuarios = lastrowid]
                 /\ last' = Response("create_user", 201, u,
                                     {Usuario(r) : r \in select_by_id(usuarios', lastrowid)})
                 /\ UNCHANGED <<equipos, miembros_equipo, torneos, inscripciones,
                                pagos, partidos>>
            ELSE /\ last' = Response("create_user", 400, u, {})
                 /\ UNCHANGED db

\* GET /users/
list_users ==
    /\ last = NoRequest /\ db_file /\ UNCHANGED env
    /\ last' = Response("list_users", 200, NoParams,
                        {Usuario(r) : r \in select_all(usuarios)})
    /\ UNCHANGED db

\* The answer of GET /users/{user_id} on the table us.
get_user_response(user_id, us) ==
    LET row == select_by_id(us, user_id)
    IN  IF row = {}
        THEN Response("get_user", 404, [id |-> user_id], {})
        ELSE Response("get_user", 200, [id |-> user_id], {Usuario(r) : r \in row})

\* GET /users/{user_id}
get_user ==
    /\ last = NoRequest /\ db_file /\ UNCHANGED env
    /\ \E user_id \in IdValues :
        /\ last' = get_user_response(user_id, usuarios)
        /\ UNCHANGED db

\* UPDATE usuarios SET nombre = ?, nickname = ?, email = ? WHERE id = ?
\* on the row r it matches.
update_user_set(r, u) ==
    [r EXCEPT !.nombre = u.nombre, !.nickname = u.nickname, !.email = u.email]

\* PUT /users/{user_id}
update_user ==
    /\ last = NoRequest /\ db_file /\ UNCHANGED env
    /\ \E user_id \in IdValues, body \in {b \in UsuarioBaseBodies : UsuarioBase_valid(b)} :
        LET u == [id |-> user_id, nombre |-> body.nombre,
                  nickname |-> body.nickname, email |-> body.email]
            old == select_by_id(usuarios, user_id)
            new == {update_user_set(r, u) : r \in old}
        IN  IF old = {}
            THEN /\ last' = Response("update_user", 404, u, {})
                 /\ UNCHANGED db
            ELSE IF \A r \in new : usuarios_constraints(r, usuarios \ old)
            THEN /\ usuarios' = (usuarios \ old) \cup new
                 /\ last' = Response("update_user", 200, u,
                                     {Usuario(r) : r \in select_by_id(usuarios', user_id)})
                 /\ UNCHANGED <<equipos, miembros_equipo, torneos, inscripciones,
                                pagos, partidos, sqlite_sequence>>
            ELSE \* sqlite3.IntegrityError is not caught: the request fails
                 \* with a server error and the connection closes uncommitted.
                 /\ last' = Response("update_user", 500, u, {})
                 /\ UNCHANGED db

\* DELETE /users/{user_id}
delete_user ==
    /\ last = NoRequest /\ db_file /\ UNCHANGED env
    /\ \E user_id \in IdValues :
        LET req == [id |-> user_id]
        IN  IF select_by_id(usuarios, user_id) = {}
            THEN /\ last' = Response("delete_user", 404, req, {})
                 /\ UNCHANGED db
            ELSE IF usuarios_delete_restricted(user_id, equipos)
            THEN /\ last' = Response("delete_user", 500, req, {})
                 /\ UNCHANGED db
            ELSE /\ usuarios' = usuarios \ select_by_id(usuarios, user_id)
                 /\ miembros_equipo' =
                        usuarios_delete_cascade_miembros(user_id, miembros_equipo)
                 /\ last' = Response("delete_user", 204, req, {})
                 /\ UNCHANGED <<equipos, torneos, inscripciones, pagos, partidos,
                                sqlite_sequence>>

\* ------------------------------------------------------------- 2) Equipos
\* A create_team that also enrols the captain as a 'capitan' member.
create_team_with_membership ==
    /\ last = NoRequest /\ db_file /\ UNCHANGED env
    /\ \E t \in {b \in EquipoBaseBodies : EquipoBase_valid(b)} :
        LET lastrowid == next_id("equipos")
            row == [id |-> lastrowid, nombre |-> t.nombre, id_capitan |-> t.id_capitan]
            member == [id |-> next_id("miembros_equipo"), id_equipo |-> lastrowid,
                       id_usuario |-> t.id_capitan, rol |-> "capitan"]
        IN  IF equipos_constraints(row, equipos, usuarios)
            THEN /\ CanInsert("equipos") /\ CanInsert("miembros_equipo")
                 /\ RowsInserted + 1 < MaxRows
                 /\ equipos' = equipos \cup {row}
                 /\ miembros_equipo' = miembros_equipo \cup {member}
                 /\ sqlite_sequence' = [sqlite_sequence EXCEPT !.equipos = lastrowid,
                                            !.miembros_equipo = member.id]
                 /\ last' = Response("create_team", 201, t, {Equipo(row)})
                 /\ UNCHANGED <<usuarios, torneos, inscripciones, pagos, partidos>>
            ELSE /\ last' = Response("create_team", 400, t, {})
                 /\ UNCHANGED db

\* POST /teams/
create_team ==
    /\ last = NoRequest /\ db_file /\ UNCHANGED env
    /\ \E t \in {b \in EquipoBaseBodies : EquipoBase_valid(b)} :
        LET lastrowid == next_id("equipos")
            row == [id |-> lastrowid, nombre |-> t.nombre, id_capitan |-> t.id_capitan]
        IN  IF equipos_constraints(row, equipos, usuarios)
            THEN /\ CanInsert("equipos")
                 /\ equipos' = equipos \cup {row}
                 /\ sqlite_sequence' = [sqlite_sequence EXCEPT !.equipos = lastrowid]
                 /\ last' = Response("create_team", 201, t,
                                     {Equipo(r) : r \in select_by_id(equipos', lastrowid)})
                 /\ UNCHANGED <<usuarios, miembros_equipo, torneos, inscripciones,
                                pagos, partidos>>
            ELSE /\ last' = Response("create_team", 400, t, {})
                 /\ UNCHANGED db

\* GET /teams/
list_teams ==
    /\ last = NoRequest /\ db_file /\ UNCHANGED env
    /\ last' = Response("list_teams", 200, NoParams,
                        {Equipo(r) : r \in select_all(equipos)})
    /\ UNCHANGED db

\* The answer of GET /teams/{team_id} on the table eqs.
get_team_response(team_id, eqs) ==
    LET row == select_by_id(eqs, team_id)
    IN  IF row = {}
        THEN Response("get_team", 404, [id |-> team_id], {})
        ELSE Response("get_team", 200, [id |-> team_id], {Equipo(r) : r \in row})

\* GET /teams/{team_id}
get_team ==
    /\ last = NoRequest /\ db_file /\ UNCHANGED env
    /\ \E team_id \in IdValues :
        /\ last' = get_team_response(team_id, equipos)
        /\ UNCHANGED db

\* UPDATE equipos SET nombre = ? WHERE id = ?: the captain is not written.
update_team_set_nombre_only(r, t) == [r EXCEPT !.nombre = t.nombre]

\* UPDATE equipos SET nombre = ?, id_capitan = ? WHERE id = ? on the row r
\* it matches.
update_team_set(r, t) == [r EXCEPT !.nombre = t.nombre, !.id_capitan = t.id_capitan]

\* PUT /teams/{team_id}
update_team ==
    /\ last = NoRequest /\ db_file /\ UNCHANGED env
    /\ \E team_id \in IdValues, body \in {b \in EquipoBaseBodies : EquipoBase_valid(b)} :
        LET t == [id |-> team_id, nombre |-> body.nombre,
                  id_capitan |-> body.id_capitan]
            old == select_by_id(equipos, team_id)
            new == {update_team_set(r, t) : r \in old}
        IN  IF old = {}
            THEN /\ last' = Response("update_team", 404, t, {})
                 /\ UNCHANGED db
            ELSE IF \A r \in new : equipos_constraints(r, equipos \ old, usuarios)
            THEN /\ equipos' = (equipos \ old) \cup new
                 /\ last' = Response("update_team", 200, t,
                                     {Equipo(r) : r \in select_by_id(equipos', team_id)})
                 /\ UNCHANGED <<usuarios, miembros_equipo, torneos, inscripciones,
                                pagos, partidos, sqlite_sequence>>
            ELSE /\ last' = Response("update_team", 500, t, {})
                 /\ UNCHANGED db

\* DELETE /teams/{team_id}
delete_team ==
    /\ last = NoRequest /\ db_file /\ UNCHANGED env
    /\ \E team_id \in IdValues :
        LET req == [id |-> team_id]
        IN  IF select_by_id(equipos, team_id) = {}
            THEN /\ last' = Response("delete_team", 404, req, {})
                 /\ UNCHANGED db
            ELSE IF equipos_delete_restricted(team_id, partidos)
            THEN /\ last' = Response("delete_team", 500, req, {})
                 /\ UNCHANGED db
            ELSE /\ equipos' = equipos \ select_by_id(equipos, team_id)
                 /\ miembros_equipo' = equipos_delete_cascade(team_id, miembros_equipo)
                 /\ inscripciones' = equipos_delete_cascade(team_id, inscripciones)
                 /\ pagos' = equipos_delete_cascade(team_id, pagos)
                 /\ last' = Response("delete_team", 204, req, {})
                 /\ UNCHANGED <<usuarios, torneos, partidos, sqlite_sequence>>

\* -------------------------------------------------- 3) Miembros de Equipo
\* POST /members/
add_member ==
    /\ last = NoRequest /\ db_file /\ UNCHANGED env
    /\ \E m \in {b \in MiembroBaseBodies : MiembroBase_valid(b)} :
        LET lastrowid == next_id("miembros_equipo")
            row == [id |-> lastrowid, id_equipo |-> m.id_equipo,
                    id_usuario |-> m.id_usuario, rol |-> m.rol]
        IN  IF miembros_constraints(row, miembros_equipo, equipos, usuarios)
            THEN /\ CanInsert("miembros_equipo")
                 /\ miembros_equipo' = miembros_equipo \cup {row}
                 /\ sqlite_sequence' =
                        [sqlite_sequence EXCEPT !.miembros_equipo = lastrowid]
                 /\ last' = Response("add_member", 201, m,
                                {Miembro(r) : r \in select_by_id(miembros_equipo', lastrowid)})
                 /\ UNCHANGED <<usuarios, equipos, torneos, inscripciones, pagos,
                                partidos>>
            ELSE /\ last' = Response("add_member", 400, m, {})
                 /\ UNCHANGED db

\* GET /members/
list_members ==
    /\ last = NoRequest /\ db_file /\ UNCHANGED env
    /\ last' = Response("list_members", 200, NoParams,
                        {Miembro(r) : r \in select_all(miembros_equipo)})
    /\ UNCHANGED db

\* DELETE /members/{member_id}
delete_member ==
    /\ last = NoRequest /\ db_file /\ UNCHANGED env
    /\ \E member_id \in IdValues :
        LET req == [id |-> member_id]
        IN  IF select_by_id(miembros_equipo, member_id) = {}
            THEN /\ last' = Response("delete_member", 404, req, {})
                 /\ UNCHANGED db
            ELSE /\ miembros_equipo' =
                        miembros_equipo \ select_by_id(miembros_equipo, member_id)
                 /\ last' = Response("delete_member", 204, req, {})
                 /\ UNCHANGED <<usuarios, equipos, torneos, inscripciones, pagos,
                                partidos, sqlite_sequence>>

\* ------------------------------------------------------------- 4) Torneos
\* POST /tournaments/
create_tournament ==
    /\ last = NoRequest /\ db_file /\ UNCHANGED env
    /\ \E t \in {b \in TorneoBaseBodies : TorneoBase_valid(b)} :
        LET lastrowid == next_id("torneos")
            row == [id |-> lastrowid, nombre |-> t.nombre,
                    descripcion |-> t.descripcion, fecha_inicio |-> t.fecha_inicio,
                    fecha_fin |-> t.fecha_fin, max_equipos |-> t.max_equipos,
                    estado |-> t.estado]
        IN  IF torneos_constraints(row)
            THEN /\ CanInsert("torneos")
                 /\ torneos' = torneos \cup {row}
                 /\ sqlite_sequence' = [sqlite_sequence EXCEPT !.torneos = lastrowid]
                 /\ last' = Response("create_tournament", 201, t,
                                     {Torneo(r) : r \in select_by_id(torneos', lastrowid)})
                 /\ UNCHANGED <<usuarios, equipos, miembros_equipo, inscripciones,
                                pagos, partidos>>
            ELSE \* no try/except around the INSERT
                 /\ last' = Response("create_tournament", 500, t, {})
                 /\ UNCHANGED db

\* GET /tournaments/
list_tournaments ==
    /\ last = NoRequest /\ db_file /\ UNCHANGED env
    /\ last' = Response("list_tournaments", 200, NoParams,
                        {Torneo(r) : r \in select_all(torneos)})
    /\ UNCHANGED db

\* A GET /tournaments/{tournament_id} that does not look at the id.
get_tournament_response_any_id(tournament_id, ts) ==
    Response("get_tournament", 200, [id |-> tournament_id], {Torneo(r) : r \in ts})

\* The answer of GET /tournaments/{tournament_id} on the table ts.
get_tournament_response(tournament_id, ts) ==
    LET row == select_by_id(ts, tournament_id)
    IN  IF row = {}
        THEN Response("get_tournament", 404, [id |-> tournament_id], {})
        ELSE Response("get_tournament", 200, [id |-> tournament_id],
                      {Torneo(r) : r \in row})

\* GET /tournaments/{tournament_id}
get_tournament ==
    /\ last = NoRequest /\ db_file /\ UNCHANGED env
    /\ \E tournament_id \in IdValues :
        /\ last' = get_tournament_response(tournament_id, torneos)
        /\ UNCHANGED db

\* An update that guards the life cycle: a finished tournament keeps its
\* estado.
update_tournament_set_guarded(r, t) ==
    [r EXCEPT !.nombre = t.nombre, !.descripcion = t.descripcion,
              !.fecha_inicio = t.fecha_inicio, !.fecha_fin = t.fecha_fin,
              !.max_equipos = t.max_equipos,
              !.estado = IF r.estado = "finalizado" THEN r.estado ELSE t.estado]

\* UPDATE torneos SET nombre = ?, descripcion = ?, fecha_inicio = ?,
\* fecha_fin = ?, max_equipos = ?, estado = ? WHERE id = ? on the row r it
\* matches.
update_tournament_set(r, t) ==
    [r EXCEPT !.nombre = t.nombre, !.descripcion = t.descripcion,
              !.fecha_inicio = t.fecha_inicio, !.fecha_fin = t.fecha_fin,
              !.max_equipos = t.max_equipos, !.estado = t.estado]

\* PUT /tournaments/{tournament_id}
update_tournament ==
    /\ last = NoRequest /\ db_file /\ UNCHANGED env
    /\ \E tournament_id \in IdValues, body \in {b \in TorneoBaseBodies : TorneoBase_valid(b)} :
        LET t == [id |-> tournament_id, nombre |-> body.nombre,
                  descripcion |-> body.descripcion,
                  fecha_inicio |-> body.fecha_inicio, fecha_fin |-> body.fecha_fin,
                  max_equipos |-> body.max_equipos, estado |-> body.estado]
            old == select_by_id(torneos, tournament_id)
            new == {update_tournament_set(r, t) : r \in old}
        IN  IF old = {}
            THEN /\ last' = Response("update_tournament", 404, t, {})
                 /\ UNCHANGED db
            ELSE IF \A r \in new : torneos_constraints(r)
            THEN /\ torneos' = (torneos \ old) \cup new
                 /\ last' = Response("update_tournament", 200, t,
                                {Torneo(r) : r \in select_by_id(torneos', tournament_id)})
                 /\ UNCHANGED <<usuarios, equipos, miembros_equipo, inscripciones,
                                pagos, partidos, sqlite_sequence>>
            ELSE /\ last' = Response("update_tournament", 500, t, {})
                 /\ UNCHANGED db

\* DELETE /tournaments/{tournament_id}
delete_tournament ==
    /\ last = NoRequest /\ db_file /\ UNCHANGED env
    /\ \E tournament_id \in IdValues :
        LET req == [id |-> tournament_id]
        IN  IF select_by_id(torneos, tournament_id) = {}
            THEN /\ last' = Response("delete_tournament", 404, req, {})
                 /\ UNCHANGED db
            ELSE /\ torneos' = torneos \ select_by_id(torneos, tournament_id)
                 /\ inscripciones' = torneos_delete_cascade(tournament_id, inscripciones)
                 /\ pagos' = torneos_delete_cascade(tournament_id, pagos)
                 /\ partidos' = torneos_delete_cascade(tournament_id, partidos)
                 /\ last' = Response("delete_tournament", 204, req, {})
                 /\ UNCHANGED <<usuarios, equipos, miembros_equipo, sqlite_sequence>>

\* ------------------------------------------------------- 5) Inscripciones
\* POST /inscriptions/
create_inscription ==
    /\ last = NoRequest /\ db_file /\ UNCHANGED env
    /\ \E i \in {b \in InscripcionBaseBodies : InscripcionBase_valid(b)} :
        LET lastrowid == next_id("inscripciones")
            row == [id |-> lastrowid, id_equipo |-> i.id_equipo,
                    id_torneo |-> i.id_torneo,
                    fecha_inscripcion |-> CURRENT_TIMESTAMP]
        IN  IF inscripciones_constraints(row, inscripciones, equipos, torneos)
            THEN /\ CanInsert("inscripciones")
                 /\ inscripciones' = inscripciones \cup {row}
                 /\ sqlite_sequence' =
                        [sqlite_sequence EXCEPT !.inscripciones = lastrowid]
                 /\ last' = Response("create_inscription", 201, i,
                                {Inscripcion(r) : r \in select_by_id(inscripciones', lastrowid)})
                 /\ UNCHANGED <<usuarios, equipos, miembros_equipo, torneos, pagos,
                                partidos>>
            ELSE /\ last' = Response("create_inscription", 400, i, {})
                 /\ UNCHANGED db

\* GET /inscriptions/
list_inscriptions ==
    /\ last = NoRequest /\ db_file /\ UNCHANGED env
    /\ last' = Response("list_inscriptions", 200, NoParams,
                        {Inscripcion(r) : r \in select_all(inscripciones)})
    /\ UNCHANGED db

\* DELETE /inscriptions/{insc_id}
delete_inscription ==
    /\ last = NoRequest /\ db_file /\ UNCHANGED env
    /\ \E insc_id \in IdValues :
        LET req == [id |-> insc_id]
        IN  IF select_by_id(inscripciones, insc_id) = {}
            THEN /\ last' = Response("delete_inscription", 404, req, {})
                 /\ UNCHANGED db
            ELSE /\ inscripciones' =
                        inscripciones \ select_by_id(inscripciones, insc_id)
                 /\ last' = Response("delete_inscription", 204, req, {})
                 /\ UNCHANGED <<usuarios, equipos, miembros_equipo, torneos, pagos,
                                partidos, sqlite_sequence>>

\* --------------------------------------------------------------- 6) Pagos
\* POST /payments/
create_payment ==
    /\ last = NoRequest /\ db_file /\ UNCHANGED env
    /\ \E p \in {b \in PagoBaseBodies : PagoBase_valid(b)} :
        LET lastrowid == next_id("pagos")
            row == [id |-> lastrowid, id_equipo |-> p.id_equipo,
                    id_torneo |-> p.id_torneo, monto_cent |-> p.monto_cent,
                    estado |-> p.estado, fecha_pago |-> CURRENT_TIMESTAMP]
        IN  IF pagos_constraints(row, equipos, torneos)
            THEN /\ CanInsert("pagos")
                 /\ pagos' = pagos \cup {row}
                 /\ sqlite_sequence' = [sqlite_sequence EXCEPT !.pagos = lastrowid]
                 /\ last' = Response("create_payment", 201, p,
                                     {Pago(r) : r \in select_by_id(pagos', lastrowid)})
                 /\ UNCHANGED <<usuarios, equipos, miembros_equipo, torneos,
                                inscripciones, partidos>>
            ELSE /\ last' = Response("create_payment", 400, p, {})
                 /\ UNCHANGED db

\* GET /payments/
list_payments ==
    /\ last = NoRequest /\ db_file /\ UNCHANGED env
    /\ last' = Response("list_payments", 200, NoParams,
                        {Pago(r) : r \in select_all(pagos)})
    /\ UNCHANGED db

\* DELETE /payments/{payment_id}
delete_payment ==
    /\ last = NoRequest /\ db_file /\ UNCHANGED env
    /\ \E payment_id \in IdValues :
        LET req == [id |-> payment_id]
        IN  IF select_by_id(pagos, payment_id) = {}
            THEN /\ last' = Response("delete_payment", 404, req, {})
                 /\ UNCHANGED db
            ELSE /\ pagos' = pagos \ select_by_id(pagos, payment_id)
                 /\ last' = Response("delete_payment", 204, req, {})
                 /\ UNCHANGED <<usuarios, equipos, miembros_equipo, torneos,
                                inscripciones, partidos, sqlite_sequence>>

\* ------------------------------------------------------------ 7) Partidos
\* POST /matches/
create_match ==
    /\ last = NoRequest /\ db_file /\ UNCHANGED env
    /\ \E m \in {b \in PartidoBaseBodies : PartidoBase_valid(b)} :
        LET lastrowid == next_id("partidos")
            row == [id |-> lastrowid, id_torneo |-> m.id_torneo,
                    equipo_local |-> m.equipo_local,
                    equipo_visitante |-> m.equipo_visitante, fecha |-> m.fecha,
                    resultado_local |-> m.resultado_local,
                    resultado_visitante |-> m.resultado_visitante]
        IN  IF partidos_constraints(row, equipos, torneos)
            THEN /\ CanInsert("partidos")
                 /\ partidos' = partidos \cup {row}
                 /\ sqlite_sequence' = [sqlite_sequence EXCEPT !.partidos = lastrowid]
                 /\ last' = Response("create_match", 201, m,
                                     {Partido(r) : r \in select_by_id(partidos', lastrowid)})
                 /\ UNCHANGED <<usuarios, equipos, miembros_equipo, torneos,
                                inscripciones, pagos>>
            ELSE /\ last' = Response("create_match", 400, m, {})
                 /\ UNCHANGED db

\* GET /matches/
list_matches ==
    /\ last = NoRequest /\ db_file /\ UNCHANGED env
    /\ last' = Response("list_matches", 200, NoParams,
                        {Partido(r) : r \in select_all(partidos)})
    /\ UNCHANGED db

\* DELETE /matches/{match_id}
delete_match ==
    /\ last = NoRequest /\ db_file /\ UNCHANGED env
    /\ \E match_id \in IdValues :
        LET req == [id |-> match_id]
        IN  IF select_by_id(partidos, match_id) = {}
            THEN /\ last' = Response("delete_match", 404, req, {})
                 /\ UNCHANGED db
            ELSE /\ partidos' = partidos \ select_by_id(partidos, match_id)
                 /\ last' = Response("delete_match", 204, req, {})
                 /\ UNCHANGED <<usuarios, equipos, miembros_equipo, torneos,
                                inscripciones, pagos, sqlite_sequence>>

\* ------------------------------------------------------ body validation
\* FastAPI validates the body against the model the handler declares before
\* it calls the handler: a body the model rejects is answered 422
\* Unprocessable Entity, the handler does not run and no statement is
\* executed.
request_validation_error ==
    /\ last = NoRequest /\ db_file /\ UNCHANGED env
    /\ \/ \E u \in {b \in UsuarioCreateBodies : ~UsuarioCreate_valid(b)} :
            last' = Response("validation", 422, [route |-> "create_user", body |-> u], {})
       \/ \E u \in {b \in UsuarioBaseBodies : ~UsuarioBase_valid(b)} :
            last' = Response("validation", 422, [route |-> "update_user", body |-> u], {})
       \/ \E t \in {b \in EquipoBaseBodies : ~EquipoBase_valid(b)} :
            \E route \in {"create_team", "update_team"} :
                last' = Response("validation", 422, [route |-> route, body |-> t], {})
       \/ \E m \in {b \in MiembroBaseBodies : ~MiembroBase_valid(b)} :
            last' = Response("validation", 422, [route |-> "add_member", body |-> m], {})
       \/ \E t \in {b \in TorneoBaseBodies : ~TorneoBase_valid(b)} :
            \E route \in {"create_tournament", "update_tournament"} :
                last' = Response("validation", 422, [route |-> route, body |-> t], {})
       \/ \E i \in {b \in InscripcionBaseBodies : ~InscripcionBase_valid(b)} :
            last' = Response("validation", 422,
                             [route |-> "create_inscription", body |-> i], {})
       \/ \E p \in {b \in PagoBaseBodies : ~PagoBase_valid(b)} :
            last' = Response("validation", 422, [route |-> "create_payment", body |-> p], {})
       \/ \E m \in {b \in PartidoBaseBodies : ~PartidoBase_valid(b)} :
            last' = Response("validation", 422, [route |-> "create_match", body |-> m], {})
    /\ UNCHANGED db

\* ----------------------------------------------------------------- get_db
\* The finally block of get_db: the request is over, its connection closes.
\* A handler that answered an error committed nothing, and the statement
\* that raised was undone by SQLite, so closing discards nothing more.
get_db_close ==
    /\ last.op \notin {"none", "initialize_database"}
    /\ last' = NoRequest
    /\ UNCHANGED db
    /\ UNCHANGED env

\* ------------------------------------------------------------------ Next
Next ==
    \/ initialize_database
    \/ startup_complete
    \/ get_db_close
    \/ create_user
    \/ get_user
    \/ update_user
    \/ delete_user
    \/ create_team
    \/ get_team
    \/ update_team
    \/ delete_team
    \/ add_member
    \/ delete_member
    \/ create_tournament
    \/ update_tournament
    \/ delete_tournament
    \/ create_inscription
    \/ delete_inscription
    \/ create_payment
    \/ delete_payment
    \/ create_match
    \/ delete_match
    \/ list_users
    \/ list_teams
    \/ list_members
    \/ get_tournament
    \/ list_tournaments
    \/ list_inscriptions
    \/ list_payments
    \/ list_matches
    \/ request_validation_error

Spec == Init /\ [][Next]_vars

\* ------------------------------------- requests served at the same time
\* FastAPI runs `def` handlers in a thread pool, so two requests may be
\* served at once.  A request is then a sequence of steps on its own
\* connection: get_db connects, the handler executes its statement (inside
\* the transaction the sqlite3 module opens before a write), commits,
\* re-fetches the row and returns, and get_db's finally closes.  The tables
\* are the committed content of the file; `pending` is what the open
\* transaction of a request will store at its commit.

\* The database of the concurrent scenarios, as requests served one after
\* the other leave it: a user who is the captain of a team, and a
\* tournament.
InitConcurrent ==
    /\ usuarios = {[id |-> 1, nombre |-> "n1", nickname |-> "k1", email |-> "a@x.io",
                    pwd_hash |-> "h60", fecha_reg |-> CURRENT_TIMESTAMP]}
    /\ equipos = {[id |-> 1, nombre |-> "rojo", id_capitan |-> 1]}
    /\ miembros_equipo = {}
    /\ torneos = {[id |-> 1, nombre |-> "copa", descripcion |-> NULL,
                   fecha_inicio |-> "2024-07-01", fecha_fin |-> "2024-07-01",
                   max_equipos |-> 1, estado |-> "programado"]}
    /\ inscripciones = {}
    /\ pagos = {}
    /\ partidos = {}
    /\ sqlite_sequence =
           [usuarios |-> 1, equipos |-> 1, miembros_equipo |-> 0, torneos |-> 1,
            inscripciones |-> 0, pagos |-> 0, partidos |-> 0]
    /\ last = NoRequest
    /\ db_file = TRUE
    /\ requests = [s \in Slots |-> IdleRequest]

\* One module-level connection every request uses.
sqlite3_connect_shared(s) == "A"

\* sqlite3.connect(DB_PATH) in get_db: a new connection, the request's own.
sqlite3_connect(s) == s

\* The request of slot s right after get_db yielded its connection.
Connected(s, op, req) ==
    [op |-> op, req |-> req, pc |-> "connected", status |-> 0, body |-> {},
     lastrowid |-> 0, conn |-> sqlite3_connect(s), txn |-> FALSE, pending |-> {}]

\* The handler returned or raised: the response of the request.
Responded(r, st, body) == [r EXCEPT !.pc = "responded", !.status = st, !.body = body]

\* A database that lets every connection write at once.
write_lock_never_held(s) == TRUE

\* SQLite admits one write transaction at a time: no other connection has
\* one open.
write_lock_free(s) == \A t \in Slots \ {s} : ~requests[t].txn

\* get_db up to its yield, for a request whose body passed validation.
get_db(s) ==
    /\ requests[s].pc = "idle"
    /\ \/ \E u \in {b \in UsuarioCreateBodies : UsuarioCreate_valid(b)} :
            requests' = [requests EXCEPT ![s] = Connected(s, "create_user", u)]
       \/ \E user_id \in IdValues, body \in {b \in UsuarioBaseBodies : UsuarioBase_valid(b)} :
            requests' = [requests EXCEPT ![s] =
                            Connected(s, "update_user",
                                      [id |-> user_id, nombre |-> body.nombre,
                                       nickname |-> body.nickname,
                                       email |-> body.email])]
       \/ \E user_id \in IdValues :
            requests' = [requests EXCEPT ![s] =
                            Connected(s, "delete_user", [id |-> user_id])]
       \/ \E i \in {b \in InscripcionBaseBodies : InscripcionBase_valid(b)} :
            requests' = [requests EXCEPT ![s] = Connected(s, "create_inscription", i)]
    /\ UNCHANGED <<db, last, db_file>>

\* create_user: cursor.execute(INSERT INTO usuarios ...).
create_user_execute(s) ==
    /\ requests[s].pc = "connected" /\ requests[s].op = "create_user"
    /\ write_lock_free(s)
    /\ LET u == requests[s].req
           lastrowid == next_id("usuarios")
           row == [id |-> lastrowid, nombre |-> u.nombre, nickname |-> u.nickname,
                   email |-> u.email, pwd_hash |-> u.pwd_hash,
                   fecha_reg |-> CURRENT_TIMESTAMP]
       IN  IF usuarios_constraints(row, usuarios)
           THEN /\ CanInsert("usuarios")
                /\ requests' = [requests EXCEPT ![s] =
                                    [@ EXCEPT !.pc = "executed", !.txn = TRUE,
                                              !.lastrowid = lastrowid,
                                              !.pending = usuarios \cup {row}]]
           ELSE \* except sqlite3.IntegrityError: 400
                requests' = [requests EXCEPT ![s] =
                                Responded([@ EXCEPT !.txn = TRUE], 400, {})]
    /\ UNCHANGED <<db, last, db_file>>

\* update_user: cursor.execute(UPDATE usuarios ...) and the rowcount test.
update_user_execute(s) ==
    /\ requests[s].pc = "connected" /\ requests[s].op = "update_user"
    /\ write_lock_free(s)
    /\ LET u == requests[s].req
           old == select_by_id(usuarios, u.id)
           new == {update_user_set(r, u) : r \in old}
       IN  requests' = [requests EXCEPT ![s] =
               IF old = {}
               THEN Responded([@ EXCEPT !.txn = TRUE], 404, {})
               ELSE IF \A r \in new : usuarios_constraints(r, usuarios \ old)
               THEN [@ EXCEPT !.pc = "executed", !.txn = TRUE,
                              !.pending = (usuarios \ old) \cup new]
               ELSE Responded([@ EXCEPT !.txn = TRUE], 500, {})]
    /\ UNCHANGED <<db, last, db_file>>

\* delete_user: cursor.execute(DELETE FROM usuarios ...) and the rowcount
\* test.
delete_user_execute(s) ==
    /\ requests[s].pc = "connected" /\ requests[s].op = "delete_user"
    /\ write_lock_free(s)
    /\ LET user_id == requests[s].req.id
       IN  requests' = [requests EXCEPT ![s] =
               IF select_by_id(usuarios, user_id) = {}
               THEN Responded([@ EXCEPT !.txn = TRUE], 404, {})
               ELSE IF usuarios_delete_restricted(user_id, equipos)
               THEN Responded([@ EXCEPT !.txn = TRUE], 500, {})
               ELSE [@ EXCEPT !.pc = "executed", !.txn = TRUE,
                              !.pending = usuarios \ select_by_id(usuarios, user_id)]]
    /\ UNCHANGED <<db, last, db_file>>

\* create_inscription: cursor.execute(INSERT INTO inscripciones ...).
create_inscription_execute(s) ==
    /\ requests[s].pc = "connected" /\ requests[s].op = "create_inscription"
    /\ write_lock_free(s)
    /\ LET i == requests[s].req
           lastrowid == next_id("inscripciones")
           row == [id |-> lastrowid, id_equipo |-> i.id_equipo,
                   id_torneo |-> i.id_torneo,
                   fecha_inscripcion |-> CURRENT_TIMESTAMP]
       IN  IF inscripciones_constraints(row, inscripciones, equipos, torneos)
           THEN /\ CanInsert("inscripciones")
                /\ requests' = [requests EXCEPT ![s] =
                                    [@ EXCEPT !.pc = "executed", !.txn = TRUE,
                                              !.lastrowid = lastrowid,
                                              !.pending = inscripciones \cup {row}]]
           ELSE requests' = [requests EXCEPT ![s] =
                                Responded([@ EXCEPT !.txn = TRUE], 400, {})]
    /\ UNCHANGED <<db, last, db_file>>

\* The statement finds the write transaction of another connection open
\* for longer than the connection's timeout: sqlite3.OperationalError
\* (database is locked), which no handler catches.
database_is_locked(s) ==
    /\ requests[s].pc = "connected"
    /\ ~write_lock_free(s)
    /\ requests' = [requests EXCEPT ![s] = Responded(@, 500, {})]
    /\ UNCHANGED <<db, last, db_file>>

\* db.commit(): the transaction's writes become the content of the file.
\* delete_user returns right after it.
db_commit(s) ==
    LET r == requests[s]
    IN  /\ r.pc = "executed"
        /\ IF r.op = "create_inscription"
           THEN /\ inscripciones' = r.pending
                /\ sqlite_sequence' =
                       [sqlite_sequence EXCEPT !.inscripciones = r.lastrowid]
                /\ UNCHANGED <<usuarios, miembros_equipo>>
           ELSE /\ usuarios' = r.pending
                /\ miembros_equipo' =
                       IF r.op = "delete_user"
                       THEN usuarios_delete_cascade_miembros(r.req.id, miembros_equipo)
                       ELSE miembros_equipo
                /\ sqlite_sequence' =
                       IF r.op = "create_user"
                       THEN [sqlite_sequence EXCEPT !.usuarios = r.lastrowid]
                       ELSE sqlite_sequence
                /\ UNCHANGED inscripciones
        /\ requests' = [requests EXCEPT ![s] =
               IF r.op = "delete_user"
               THEN Responded([r EXCEPT !.txn = FALSE, !.pending = {}], 204, {})
               ELSE [r EXCEPT !.pc = "committed", !.txn = FALSE, !.pending = {}]]
        /\ UNCHANGED <<equipos, torneos, pagos, partidos, last, db_file>>

\* SELECT * FROM ... WHERE id = ? after the commit, on the content of the
\* file at that moment, and the return through the response model.  When
\* no row has the id, fetchone() is None and Usuario(**row) raises a
\* TypeError: an unhandled error.
refetch(s) ==
    LET r == requests[s]
        row == IF r.op = "create_user" THEN select_by_id(usuarios, r.lastrowid)
               ELSE IF r.op = "update_user" THEN select_by_id(usuarios, r.req.id)
               ELSE select_by_id(inscripciones, r.lastrowid)
    IN  /\ r.pc = "committed"
        /\ requests' = [requests EXCEPT ![s] =
               IF row = {} THEN Responded(r, 500, {})
               ELSE IF r.op = "create_user"
               THEN Responded(r, 201, {Usuario(x) : x \in row})
               ELSE IF r.op = "update_user"
               THEN Responded(r, 200, {Usuario(x) : x \in row})
               ELSE Responded(r, 201, {Inscripcion(x) : x \in row})]
        /\ UNCHANGED <<db, last, db_file>>

\* finally: conn.close() in get_db, on every way out of the handler.  A
\* transaction still open is rolled back: its pending writes are dropped.
get_db_finally(s) ==
    /\ requests[s].pc = "responded"
    /\ requests' = [requests EXCEPT ![s] = IdleRequest]
    /\ UNCHANGED <<db, last, db_file>>

NextConcurrent ==
    \E s \in Slots :
        \/ get_db(s)
        \/ create_user_execute(s)
        \/ update_user_execute(s)
        \/ delete_user_execute(s)
        \/ create_inscription_execute(s)
        \/ database_is_locked(s)
        \/ db_commit(s)
        \/ refetch(s)
        \/ get_db_finally(s)

SpecConcurrent == InitConcurrent /\ [][NextConcurrent]_vars

\* ================================================================ claims
\* Helpers of the claims: the rows a step adds to and removes from a table.
Added(old, new) == new \ old
Removed(old, new) == old \ new

HasCapitan(team, ms) == \E r \in ms : r.id_equipo = team /\ r.rol = "capitan"

IsCapitan(user, eqs) == \E e \in eqs : e.id_capitan = user

InMatch(team, ps) == \E p \in ps : p.equipo_local = team \/ p.equipo_visitante = team

Failed(st) == st \in 400..599

\* C1: in every reachable state every foreign-key column references an
\* existing row: a team's id_capitan a user, a membership's id_equipo and
\* id_usuario a team and a user, an enrollment's and a payment's id_equipo
\* and id_torneo a team and a tournament, a match's id_torneo, equipo_local
\* and equipo_visitante a tournament and two teams.
C1_ForeignKeysHold ==
    /\ \A e \in equipos : e.id_capitan \in Ids(usuarios)
    /\ \A m \in miembros_equipo :
           m.id_equipo \in Ids(equipos) /\ m.id_usuario \in Ids(usuarios)
    /\ \A i \in inscripciones :
           i.id_equipo \in Ids(equipos) /\ i.id_torneo \in Ids(torneos)
    /\ \A p \in pagos : p.id_equipo \in Ids(equipos) /\ p.id_torneo \in Ids(torneos)
    /\ \A p \in partidos :
           /\ p.id_torneo \in Ids(torneos)
           /\ p.equipo_local \in Ids(equipos)
           /\ p.equipo_visitante \in Ids(equipos)

\* A match is stored (so teams, their captain and a tournament are) and a
\* delete of one of its teams has just been refused.
C1_Witness ==
    /\ partidos # {}
    /\ last.op = "delete_team" /\ last.status = 500
    /\ InMatch(last.req.id, partidos)

\* C2: create_user with the email of a stored user is answered 400 and adds
\* no user row; with an email no stored user has it is answered 201 and adds
\* exactly one user row, which carries that email.
C2_CreateUserEmail ==
    [][last'.op = "create_user" =>
        IF \E r \in usuarios : r.email = last'.req.email
        THEN last'.status = 400 /\ usuarios' = usuarios
        ELSE /\ last'.status = 201
             /\ Removed(usuarios, usuarios') = {}
             /\ Cardinality(Added(usuarios, usuarios')) = 1
             /\ \A r \in Added(usuarios, usuarios') : r.email = last'.req.email]_vars

\* A second user's email was refused while the first user is stored.
C2_Witness ==
    /\ last.op = "create_user" /\ last.status = 400
    /\ \E r \in usuarios : r.email = last.req.email

\* C3: create_team is answered 400 and adds no team row when id_capitan is
\* the id of no stored user or the name is a stored team's name; otherwise
\* it is answered 201, adds exactly one team row, and get_team with the
\* returned id returns that same row.
C3_CreateTeam ==
    [][last'.op = "create_team" =>
        IF \/ last'.req.id_capitan \notin Ids(usuarios)
           \/ \E e \in equipos : e.nombre = last'.req.nombre
        THEN last'.status = 400 /\ equipos' = equipos
        ELSE /\ last'.status = 201
             /\ Removed(equipos, equipos') = {}
             /\ Cardinality(Added(equipos, equipos')) = 1
             /\ Cardinality(last'.body) = 1
             /\ \A b \in last'.body :
                    /\ b.nombre = last'.req.nombre
                    /\ b.id_capitan = last'.req.id_capitan
                    /\ Added(equipos, equipos') = {b}
                    /\ get_team_response(b.id, equipos').status = 200
                    /\ get_team_response(b.id, equipos').body = {b}]_vars

\* A second team was created and returned.
C3_Witness ==
    /\ last.op = "create_team" /\ last.status = 201
    /\ Cardinality(equipos) = 2
    /\ last.body \subseteq equipos

\* C4 as stated: a team never has two 'capitan' memberships; add_member with
\* rol 'capitan' for a team that has one is answered 400 and adds no row;
\* the same request for a stored team without a 'capitan' membership (and a
\* stored user) succeeds.
C4_AsClaimed ==
    [][/\ \A r1, r2 \in miembros_equipo' :
              (r1.rol = "capitan" /\ r2.rol = "capitan"
               /\ r1.id_equipo = r2.id_equipo) => r1 = r2
       /\ (last'.op = "add_member" /\ last'.req.rol = "capitan") =>
              /\ HasCapitan(last'.req.id_equipo, miembros_equipo) =>
                     last'.status = 400 /\ miembros_equipo' = miembros_equipo
              /\ (/\ ~HasCapitan(last'.req.id_equipo, miembros_equipo)
                  /\ last'.req.id_equipo \in Ids(equipos)
                  /\ last'.req.id_usuario \in Ids(usuarios)) =>
                     last'.status = 201]_vars

\* C4 amended: as C4, and the request for a team without a 'capitan'
\* membership succeeds when its user is not yet a member of that team; when
\* the user already is one (with any role) it is answered 400 too.
C4_OneCapitanPerTeam ==
    [][/\ \A r1, r2 \in miembros_equipo' :
              (r1.rol = "capitan" /\ r2.rol = "capitan"
               /\ r1.id_equipo = r2.id_equipo) => r1 = r2
       /\ (last'.op = "add_member" /\ last'.req.rol = "capitan") =>
              /\ HasCapitan(last'.req.id_equipo, miembros_equipo) =>
                     last'.status = 400 /\ miembros_equipo' = miembros_equipo
              /\ (/\ ~HasCapitan(last'.req.id_equipo, miembros_equipo)
                  /\ last'.req.id_equipo \in Ids(equipos)
                  /\ last'.req.id_usuario \in Ids(usuarios)) =>
                     IF \E r \in miembros_equipo :
                            /\ r.id_equipo = last'.req.id_equipo
                            /\ r.id_usuario = last'.req.id_usuario
                     THEN last'.status = 400 /\ miembros_equipo' = miembros_equipo
                     ELSE /\ last'.status = 201
                          /\ Removed(miembros_equipo, miembros_equipo') = {}
                          /\ Cardinality(Added(miembros_equipo, miembros_equipo')) = 1]_vars

\* One team has its 'capitan' membership and a 'capitan' membership has just
\* been added to the other team.
C4_Witness ==
    /\ last.op = "add_member" /\ last.status = 201 /\ last.req.rol = "capitan"
    /\ \E r \in miembros_equipo :
           r.rol = "capitan" /\ r.id_equipo # last.req.id_equipo

\* C5: no two enrollment rows ever share their (id_equipo, id_torneo) pair;
\* create_inscription for a pair that is enrolled is answered 400 and adds
\* no row.
C5_EnrollmentPairUnique ==
    [][/\ \A r1, r2 \in inscripciones' :
              (r1.id_equipo = r2.id_equipo /\ r1.id_torneo = r2.id_torneo) => r1 = r2
       /\ (/\ last'.op = "create_inscription"
           /\ \E r \in inscripciones :
                  /\ r.id_equipo = last'.req.id_equipo
                  /\ r.id_torneo = last'.req.id_torneo) =>
              last'.status = 400 /\ inscripciones' = inscripciones]_vars

\* The second enrollment of an enrolled pair was refused.
C5_Witness ==
    /\ last.op = "create_inscription" /\ last.status = 400
    /\ \E r \in inscripciones :
           r.id_equipo = last.req.id_equipo /\ r.id_torneo = last.req.id_torneo

\* C6: a successful delete_tournament removes the tournament row and exactly
\* the enrollments, payments and matches of that tournament; users, teams,
\* memberships, the other tournaments and their enrollments, payments and
\* matches are unchanged.  It succeeds for every stored tournament, also one
\* that has matches.
C6_DeleteTournamentCascade ==
    [][last'.op = "delete_tournament" =>
        /\ last'.req.id \in Ids(torneos) => last'.status = 204
        /\ last'.status = 204 =>
              /\ torneos' = {t \in torneos : t.id # last'.req.id}
              /\ Removed(torneos, torneos') # {}
              /\ inscripciones' = {r \in inscripciones : r.id_torneo # last'.req.id}
              /\ pagos' = {r \in pagos : r.id_torneo # last'.req.id}
              /\ partidos' = {r \in partidos : r.id_torneo # last'.req.id}
              /\ UNCHANGED <<usuarios, equipos, miembros_equipo>>]_vars

\* A tournament with a match was deleted: the only match ever inserted is
\* gone with it while its two teams are still stored.
C6_Witness ==
    /\ last.op = "delete_tournament" /\ last.status = 204
    /\ sqlite_sequence.partidos = 1 /\ partidos = {}
    /\ Cardinality(equipos) = 2
    /\ torneos = {}

\* C7: delete_team for a team that is equipo_local or equipo_visitante of a
\* stored match fails and changes nothing: the team row and all its
\* memberships, enrollments and payments are still there.
C7_DeleteTeamRestricted ==
    [][(last'.op = "delete_team" /\ InMatch(last'.req.id, partidos)) =>
        /\ Failed(last'.status)
        /\ \E e \in equipos' : e.id = last'.req.id
        /\ UNCHANGED tables]_vars

\* The delete of a team that plays a match was refused.
C7_Witness ==
    /\ last.op = "delete_team" /\ Failed(last.status) /\ last.status # 404
    /\ InMatch(last.req.id, partidos)
    /\ \E e \in equipos : e.id = last.req.id

C9_DeleteUser ==
    [][(last'.op = "delete_user" /\ last'.req.id \in Ids(usuarios)) =>
        IF IsCapitan(last'.req.id, equipos)
        THEN Failed(last'.status) /\ UNCHANGED tables
        ELSE /\ last'.status = 204
             /\ usuarios' = {u \in usuarios : u.id # last'.req.id}
             /\ miembros_equipo' =
                    {r \in miembros_equipo : r.id_usuario # last'.req.id}
             /\ UNCHANGED <<equipos, torneos, inscripciones, pagos, partidos>>]_vars

\* The delete of a captain who also has a membership was refused.
C9_Witness ==
    /\ last.op = "delete_user" /\ last.status = 500
    /\ IsCapitan(last.req.id, equipos)
    /\ \E r \in miembros_equipo : r.id_usuario = last.req.id

\* C10: no stored match ever has equipo_local = equipo_visitante;
\* create_match with the same id as home and away team is answered 400 and
\* adds no match row, also when the team and the tournament are stored.
C10_NoSelfMatch ==
    [][/\ \A p \in partidos' : p.equipo_local # p.equipo_visitante
       /\ (/\ last'.op = "create_match"
           /\ last'.req.equipo_local = last'.req.equipo_visitante) =>
              last'.status = 400 /\ partidos' = partidos]_vars

\* A match of a stored team against itself in a stored tournament was refused.
C10_Witness ==
    /\ last.op = "create_match" /\ last.status = 400
    /\ last.req.equipo_local = last.req.equipo_visitante
    /\ last.req.equipo_local \in Ids(equipos)
    /\ last.req.id_torneo \in Ids(torneos)

\* C11: every violation of a database constraint, by a create, an update or
\* a delete of any table, is caught and answered 400 Bad Request; no request
\* ends in an unhandled server error.  (update_user, update_team,
\* update_tournament, create_tournament and the deletes have no try/except:
\* their violations are answered 500.)
C11_AsClaimed == last.status # 500

C13_GetById ==
    [][/\ last'.op = "get_user" =>
              IF last'.req.id \in Ids(usuarios)
              THEN /\ last'.status = 200
                   /\ \E r \in usuarios :
                          /\ r.id = last'.req.id
                          /\ last'.body = {[id |-> r.id, nombre |-> r.nombre,
                                            nickname |-> r.nickname,
                                            email |-> r.email,
                                            fecha_reg |-> r.fecha_reg]}
              ELSE last'.status = 404 /\ last'.body = {}
       /\ last'.op = "get_team" =>
              IF last'.req.id \in Ids(equipos)
              THEN /\ last'.status = 200
                   /\ last'.body = {r \in equipos : r.id = last'.req.id}
              ELSE last'.status = 404 /\ last'.body = {}
       /\ last'.op = "get_tournament" =>
              IF last'.req.id \in Ids(torneos)
              THEN /\ last'.status = 200
                   /\ last'.body = {r \in torneos : r.id = last'.req.id}
              ELSE last'.status = 404 /\ last'.body = {}
       /\ (last'.op = "create_user" /\ last'.status = 201) =>
              \A b \in last'.body :
                  /\ get_user_response(b.id, usuarios').status = 200
                  /\ get_user_response(b.id, usuarios').body = {b}
                  /\ b.nombre = last'.req.nombre /\ b.nickname = last'.req.nickname
                  /\ b.email = last'.req.email
       /\ (last'.op = "create_team" /\ last'.status = 201) =>
              \A b \in last'.body :
                  /\ get_team_response(b.id, equipos').status = 200
                  /\ get_team_response(b.id, equipos').body = {b}
                  /\ b.nombre = last'.req.nombre
                  /\ b.id_capitan = last'.req.id_capitan
       /\ (last'.op = "create_tournament" /\ last'.status = 201) =>
              \A b \in last'.body :
                  /\ get_tournament_response(b.id, torneos').status = 200
                  /\ get_tournament_response(b.id, torneos').body = {b}
                  /\ [f \in DOMAIN last'.req |-> b[f]] = last'.req
       /\ (last'.op \in {"create_user", "create_team", "create_tournament"}
           /\ last'.status = 201) => Cardinality(last'.body) = 1
       /\ (last'.op = "delete_user" /\ last'.status = 204) =>
              get_user_response(last'.req.id, usuarios').status = 404
       /\ (last'.op = "delete_team" /\ last'.status = 204) =>
              get_team_response(last'.req.id, equipos').status = 404
       /\ (last'.op = "delete_tournament" /\ last'.status = 204) =>
              get_tournament_response(last'.req.id, torneos').status = 404]_vars

\* The get of a tournament that was created and then deleted is answered
\* 404 while the other tournament is still stored.
C13_Witness ==
    /\ last.op = "get_tournament" /\ last.status = 404
    /\ last.req.id = 1
    /\ sqlite_sequence.torneos = 2
    /\ Ids(torneos) = {2}

\* C14: a successful update_user, update_team or update_tournament
\* overwrites exactly the body fields of the row with the path id: the id
\* (and a user's pwd_hash and fecha_reg) are kept, and every other row of
\* every table is unchanged.
C14_UpdateOverwritesBodyFields ==
    [][/\ (last'.op = "update_user" /\ last'.status = 200) =>
              /\ \E old \in usuarios :
                     /\ old.id = last'.req.id
                     /\ usuarios' = (usuarios \ {old}) \cup
                            {[id |-> old.id, nombre |-> last'.req.nombre,
                              nickname |-> last'.req.nickname,
                              email |-> last'.req.email,
                              pwd_hash |-> old.pwd_hash,
                              fecha_reg |-> old.fecha_reg]}
              /\ UNCHANGED <<equipos, miembros_equipo, torneos, inscripciones,
                             pagos, partidos>>
       /\ (last'.op = "update_team" /\ last'.status = 200) =>
              /\ \E old \in equipos :
                     /\ old.id = last'.req.id
                     /\ equipos' = (equipos \ {old}) \cup
                            {[id |-> old.id, nombre |-> last'.req.nombre,
                              id_capitan |-> last'.req.id_capitan]}
              /\ UNCHANGED <<usuarios, miembros_equipo, torneos, inscripciones,
                             pagos, partidos>>
       /\ (last'.op = "update_tournament" /\ last'.status = 200) =>
              /\ \E old \in torneos :
                     /\ old.id = last'.req.id
                     /\ torneos' = (torneos \ {old}) \cup
                            {[id |-> old.id, nombre |-> last'.req.nombre,
                              descripcion |-> last'.req.descripcion,
                              fecha_inicio |-> last'.req.fecha_inicio,
                              fecha_fin |-> last'.req.fecha_fin,
                              max_equipos |-> last'.req.max_equipos,
                              estado |-> last'.req.estado]}
              /\ UNCHANGED <<usuarios, equipos, miembros_equipo, inscripciones,
                             pagos, partidos>>]_vars

\* An update of team 1 named user 2 its captain; the other team, which
\* also names user 2, is stored beside it.
C14_Witness ==
    /\ last.op = "update_team" /\ last.status = 200
    /\ last.req.id_capitan = 2
    /\ Cardinality(equipos) = 2
    /\ \A e \in equipos : e.id_capitan = 2
    /\ \E b \in last.body : b.id = 1 /\ b.id_capitan = 2

\* C15: an update or a delete whose path id matches no stored row is
\* answered 404 and leaves every table unchanged; a successful delete
\* leaves no row of the deleted id, so a second delete of it is a delete of
\* a missing id and is answered 404.
C15_MissingIdAnswered404 ==
    [][LET missing(op, tbl) ==
               (last'.op = op /\ last'.req.id \notin Ids(tbl)) =>
                   last'.status = 404 /\ UNCHANGED db
           deleted(op, tbl) ==
               (last'.op = op /\ last'.status = 204) => last'.req.id \notin Ids(tbl)
       IN  /\ missing("update_user", usuarios)
           /\ missing("update_team", equipos)
           /\ missing("update_tournament", torneos)
           /\ missing("delete_user", usuarios)
           /\ missing("delete_team", equipos)
           /\ missing("delete_member", miembros_equipo)
           /\ missing("delete_tournament", torneos)
           /\ missing("delete_inscription", inscripciones)
           /\ missing("delete_payment", pagos)
           /\ missing("delete_match", partidos)
           /\ deleted("delete_user", usuarios')
           /\ deleted("delete_team", equipos')
           /\ deleted("delete_member", miembros_equipo')
           /\ deleted("delete_tournament", torneos')
           /\ deleted("delete_inscription", inscripciones')
           /\ deleted("delete_payment", pagos')
           /\ deleted("delete_match", partidos')]_vars

\* The second delete of a membership: its id was handed out, its row is
\* gone, another membership is stored, and the delete is answered 404.
C15_Witness ==
    /\ last.op = "delete_member" /\ last.status = 404
    /\ last.req.id = 1
    /\ sqlite_sequence.miembros_equipo = 2
    /\ Ids(miembros_equipo) = {2}

\* C16: each list operation answers 200 with exactly the rows currently
\* stored in its table (a user without its pwd_hash), without filtering or
\* pagination, and changes nothing.
C16_ListReturnsAllRows ==
    [][LET lists(op, tbl) ==
               last'.op = op =>
                   /\ last'.status = 200
                   /\ last'.body = tbl
                   /\ UNCHANGED db
       IN  /\ last'.op = "list_users" =>
                  /\ last'.status = 200
                  /\ {b.id : b \in last'.body} = {r.id : r \in usuarios}
                  /\ Cardinality(last'.body) = Cardinality(usuarios)
                  /\ \A b \in last'.body : \E r \in usuarios :
                         b = [id |-> r.id, nombre |-> r.nombre,
                              nickname |-> r.nickname, email |-> r.email,
                              fecha_reg |-> r.fecha_reg]
                  /\ UNCHANGED db
           /\ lists("list_teams", equipos)
           /\ lists("list_members", miembros_equipo)
           /\ lists("list_tournaments", torneos)
           /\ lists("list_inscriptions", inscripciones)
           /\ lists("list_payments", pagos)
           /\ lists("list_matches", partidos)]_vars

\* The list of memberships returned both stored memberships.
C16_Witness ==
    /\ last.op = "list_members" /\ last.status = 200
    /\ Cardinality(last.body) = 2
    /\ Cardinality(miembros_equipo) = 2

\* C17: update_tournament does not look at the current estado: on a stored
\* tournament it succeeds for every target estado among programado, en_curso
\* and finalizado, whatever the current one (finalizado back to programado
\* included), and stores the target.
C17_EstadoBlindOverwrite ==
    [][(/\ last'.op = "update_tournament"
        /\ last'.req.id \in Ids(torneos)
        /\ last'.req.estado \in EstadosTorneo) =>
           /\ last'.status = 200
           /\ \E r \in torneos' : r.id = last'.req.id /\ r.estado = last'.req.estado
           /\ \E b \in last'.body : b.id = last'.req.id /\ b.estado = last'.req.estado]_vars

\* An update asked for programado and its tournament is stored as
\* programado, beside another tournament that is finalizado.
C17_Witness ==
    /\ last.op = "update_tournament" /\ last.status = 200
    /\ last.req.estado = "programado"
    /\ \E r \in torneos : r.id = last.req.id /\ r.estado = "programado"
    /\ \E r \in torneos : r.id # last.req.id /\ r.estado = "finalizado"

\* C18: in every reachable state every stored tournament has
\* max_equipos > 0 and an estado among programado, en_curso, finalizado;
\* every stored payment has monto_cent >= 0 and an estado among pendiente,
\* confirmado; every stored membership has a rol among jugador, capitan,
\* suplente; none of these values is null.
C18_StoredValuesInRange ==
    /\ \A t \in torneos :
           /\ t.max_equipos # NullInt /\ t.max_equipos > 0
           /\ t.estado # NULL
           /\ t.estado \in {"programado", "en_curso", "finalizado"}
    /\ \A p \in pagos :
           /\ p.monto_cent # NullInt /\ p.monto_cent >= 0
           /\ p.estado # NULL
           /\ p.estado \in {"pendiente", "confirmado"}
    /\ \A m \in miembros_equipo :
           m.rol # NULL /\ m.rol \in {"jugador", "capitan", "suplente"}

\* A payment with estado null for a stored team and a stored tournament
\* passed validation and was refused by the table, while a payment is
\* stored.
C18_Witness ==
    /\ last.op = "create_payment" /\ last.status = 400
    /\ last.req.estado = NULL
    /\ last.req.id_equipo \in Ids(equipos)
    /\ last.req.id_torneo \in Ids(torneos)
    /\ pagos # {}

\* C19: no two stored memberships share (id_equipo, id_usuario); add_member
\* for a user who already is a member of the team is answered 400 and adds
\* no row, whatever the role stored and the role asked for.
C19_MembershipPairUnique ==
    [][/\ \A a, b \in miembros_equipo' :
              (a.id_equipo = b.id_equipo /\ a.id_usuario = b.id_usuario) => a = b
       /\ (/\ last'.op = "add_member"
           /\ \E r \in miembros_equipo :
                  /\ r.id_equipo = last'.req.id_equipo
                  /\ r.id_usuario = last'.req.id_usuario) =>
              last'.status = 400 /\ miembros_equipo' = miembros_equipo]_vars

\* A stored member was asked again for the same team with another role,
\* neither of the two roles being capitan, and the request was refused.
C19_Witness ==
    /\ last.op = "add_member" /\ last.status = 400
    /\ last.req.rol = "suplente"
    /\ \E r \in miembros_equipo :
           /\ r.id_equipo = last.req.id_equipo
           /\ r.id_usuario = last.req.id_usuario
           /\ r.rol = "jugador"

\* C20: create_tournament has two outcomes only, 201 and 422: every body
\* that passes validation, estado or descripcion null included, inserts a
\* row and is answered 201.  (estado null passes validation, violates
\* NOT NULL and, uncaught, is answered 500.)
C20_AsClaimed ==
    [][last'.op = "create_tournament" =>
           /\ last'.status = 201
           /\ Cardinality(torneos') = Cardinality(torneos) + 1]_vars

\* C21: max_equipos is the largest number of teams a tournament admits: in
\* every reachable state a tournament has at most max_equipos enrollment
\* rows.  (create_inscription never reads max_equipos.)
C21_AsClaimed ==
    \A t \in torneos :
        Cardinality({i \in inscripciones : i.id_torneo = t.id}) <= t.max_equipos

\* C22: delete_team is refused, and deletes nothing, while a user is the
\* captain of the team, that is while its id_capitan names a stored user.
\* (The foreign key of equipos.id_capitan restricts the delete of the user,
\* not of the team.)
C22_AsClaimed ==
    [][(/\ last'.op = "delete_team"
        /\ \E e \in equipos : e.id = last'.req.id /\ e.id_capitan \in Ids(usuarios)) =>
           Failed(last'.status) /\ equipos' = equipos]_vars

\* C27: an update that violates a constraint changes nothing: update_user
\* with an email another user holds, update_team with a name another team
\* holds or with an id_capitan that is no stored user, leave the target row
\* with its previous values and every table unchanged.
C27_FailedUpdateChangesNothing ==
    [][/\ (/\ last'.op = "update_user"
           /\ last'.req.id \in Ids(usuarios)
           /\ \E r \in usuarios : r.id # last'.req.id /\ r.email = last'.req.email) =>
              UNCHANGED db
       /\ (/\ last'.op = "update_team"
           /\ last'.req.id \in Ids(equipos)
           /\ \/ \E r \in equipos : r.id # last'.req.id /\ r.nombre = last'.req.nombre
              \/ last'.req.id_capitan \notin Ids(usuarios)) =>
              UNCHANGED db]_vars

\* The rename of a team to the name of the other team was refused; both
\* names are still stored.
C27_Witness ==
    /\ last.op = "update_team" /\ Failed(last.status)
    /\ last.req.id_capitan \in Ids(usuarios)
    /\ \E a, b \in equipos :
           /\ a.id = last.req.id /\ a.nombre # last.req.nombre
           /\ b.id # last.req.id /\ b.nombre = last.req.nombre

\* C28: ids are never reused within a table: the id a successful create
\* returns is greater than every id the table has handed out before (the
\* AUTOINCREMENT counter, which never decreases and stays at or above every
\* stored id), the ids of rows deleted since, directly or by cascade,
\* included.
C28_IdsNeverReused ==
    [][/\ \A t \in DOMAIN sqlite_sequence : sqlite_sequence'[t] >= sqlite_sequence[t]
       /\ \A r \in usuarios' : r.id <= sqlite_sequence'.usuarios
       /\ \A r \in equipos' : r.id <= sqlite_sequence'.equipos
       /\ \A r \in miembros_equipo' : r.id <= sqlite_sequence'.miembros_equipo
       /\ \A r \in torneos' : r.id <= sqlite_sequence'.torneos
       /\ \A r \in inscripciones' : r.id <= sqlite_sequence'.inscripciones
       /\ \A r \in pagos' : r.id <= sqlite_sequence'.pagos
       /\ \A r \in partidos' : r.id <= sqlite_sequence'.partidos
       /\ LET fresh(op, t) ==
                  (last'.op = op /\ last'.status = 201) =>
                      \A b \in last'.body : b.id > sqlite_sequence[t]
          IN  /\ fresh("create_user", "usuarios")
              /\ fresh("create_team", "equipos")
              /\ fresh("add_member", "miembros_equipo")
              /\ fresh("create_tournament", "torneos")
              /\ fresh("create_inscription", "inscripciones")
              /\ fresh("create_payment", "pagos")
              /\ fresh("create_match", "partidos")]_vars

\* A membership created after the delete of team 1 took membership 1 with
\* it: it got id 2 and is the only membership stored.
C28_Witness ==
    /\ last.op = "add_member" /\ last.status = 201
    /\ \E b \in last.body : b.id = 2
    /\ Ids(miembros_equipo) = {2}
    /\ Ids(equipos) = {2}

\* C29: no operation modifies a stored membership, enrollment, payment or
\* match: a row whose id is still stored after a step is stored with all its
\* fields as before.
C29_ChildRowsNeverModified ==
    [][/\ \A r \in miembros_equipo : r.id \in Ids(miembros_equipo') => r \in miembros_equipo'
       /\ \A r \in inscripciones : r.id \in Ids(inscripciones') => r \in inscripciones'
       /\ \A r \in pagos : r.id \in Ids(pagos') => r \in pagos'
       /\ \A r \in partidos : r.id \in Ids(partidos') => r \in partidos']_vars

\* A user with a membership was deleted while another membership stays.
C29_Witness ==
    /\ last.op = "delete_user" /\ last.status = 204
    /\ sqlite_sequence.miembros_equipo = 2
    /\ Cardinality(miembros_equipo) = 1

\* C30: create_team and update_team leave the membership table unchanged,
\* so the user a team names as id_capitan need not be a member of the team
\* and the team's 'capitan' membership may be another user's.
C30_TeamWritesLeaveMemberships ==
    [][last'.op \in {"create_team", "update_team"} =>
           miembros_equipo' = miembros_equipo]_vars

\* update_team named a captain who is no member of the team, while the
\* team's 'capitan' membership belongs to another user.
C30_Witness ==
    /\ last.op = "update_team" /\ last.status = 200
    /\ \A m \in miembros_equipo :
           m.id_equipo = last.req.id => m.id_usuario # last.req.id_capitan
    /\ \E m \in miembros_equipo :
           /\ m.id_equipo = last.req.id /\ m.rol = "capitan"
           /\ m.id_usuario # last.req.id_capitan

\* C23: startup creates the seven tables, empty, only when the database
\* file does not exist; when the file exists startup changes nothing, so
\* every row stored before a restart is stored unchanged after it.
C23_StartupKeepsRows ==
    [][last'.op = "initialize_database" =>
           /\ db_file'
           /\ IF db_file
              THEN UNCHANGED db
              ELSE /\ usuarios' = {} /\ equipos' = {} /\ miembros_equipo' = {}
                   /\ torneos' = {} /\ inscripciones' = {} /\ pagos' = {}
                   /\ partidos' = {}]_vars

\* A restart with a user, a team, a tournament and a match stored.
C23_Witness ==
    /\ last.op = "initialize_database"
    /\ usuarios # {} /\ equipos # {} /\ torneos # {} /\ partidos # {}

\* C24: every request is served on a connection of its own, which no other
\* request in flight uses, and the connection is closed when the request
\* ends, whatever the answer (success, 400, 404, an unhandled error): a
\* request that has its response can only end, nothing is open for a slot
\* without request, and ending a request writes nothing (what its
\* transaction had not committed is dropped).
C24_ConnectionPerRequest ==
    [][/\ \A s \in Slots :
              /\ requests'[s].pc = "idle" =>
                     requests'[s].conn = "none" /\ ~requests'[s].txn
              /\ requests'[s].pc # "idle" => requests'[s].conn # "none"
              /\ (requests[s].pc = "responded" /\ requests'[s] # requests[s]) =>
                     requests'[s].pc = "idle"
              /\ (requests[s].pc # "idle" /\ requests'[s].pc = "idle") =>
                     UNCHANGED db
       /\ \A s, t \in Slots :
              (s # t /\ requests'[s].pc # "idle" /\ requests'[t].pc # "idle") =>
                  requests'[s].conn # requests'[t].conn]_vars

\* One request was answered 400 and still holds its transaction, the other
\* ran into the lock and ended in an unhandled error: two connections are
\* open.
C24_Witness ==
    /\ requests["A"].pc = "responded" /\ requests["A"].status = 400
    /\ requests["A"].txn
    /\ requests["B"].pc = "responded" /\ requests["B"].status = 500

C26_AsClaimed ==
    [][\A s \in Slots :
          (requests[s].pc = "committed" /\ requests'[s].pc = "responded") =>
              /\ requests'[s].status \in {200, 201}
              /\ requests[s].op \in {"create_user", "update_user"} =>
                     \E b \in requests'[s].body :
                         /\ b.nombre = requests[s].req.nombre
                         /\ b.nickname = requests[s].req.nickname
                         /\ b.email = requests[s].req.email]_vars

====
